---------------------------- MODULE Spec2Model ----------------------------
(***************************************************************************)
(* HireFlow job-application form: client-side validation, age derivation   *)
(* and submission.  The repository holds four page scripts, each a variant *)
(* of the same submit pipeline:                                            *)
(*   "iframe"    src/unnamed/part_000  hidden form posted into an iframe   *)
(*   "multipart" src/app.js 1-254      fetch of a FormData body            *)
(*   "urlenc"    src/app.js 256-355    fetch of a URL-encoded body         *)
(*   "formdata"  src/unnamed/part_001  fetch of a FormData, no resume body *)
(* One variant is active per page; the variable `variant` is fixed in Init.*)
(* The helper functions of the scripts are also run on their own, on       *)
(* arguments the page itself would not produce (SpecHelpers).              *)
(*                                                                         *)
(* Text values are sequences of one-character strings, so that trim, the   *)
(* regular expressions, split and the number conversions are computed.     *)
(* The file-name display and the button's label and spinner are            *)
(* presentation only and are not part of the state.  The age input is      *)
(* written by the scripts only (no manual edit of it is modelled).         *)
(***************************************************************************)
EXTENDS Integers, Sequences, FiniteSets, TLC

VARIABLES
    variant,        \* which page script is deployed
    tzWest,         \* TRUE iff the browser's zone is west of UTC
    today,          \* the local calendar date `new Date()` yields
    fields,         \* value of the inputs name, email, phone, address, dob, age
    file,           \* resumeInput.files[0], or NoFile
    errors,         \* textContent of each <field>Error span
    inputError,     \* the inputs carrying class input-error
    statusText,     \* statusMsg.textContent
    statusClass,    \* statusMsg.className
    submitDisabled, \* submitBtn.disabled
    alertMsg,       \* text of the last alert() shown
    attempts,       \* the handleSubmit calls that suspended, in start order
    call            \* a helper function called on its own: name, argument,
                    \* and the value returned once it has run

vars == << variant, tzWest, today, fields, file, errors, inputError,
           statusText, statusClass, submitDisabled, alertMsg, attempts,
           call >>

-----------------------------------------------------------------------------
(* Bounds of the model *)

\* handleSubmit calls that pass validation, per behaviour
MaxAttempts == 2

\* load events one hidden iframe may fire
MaxLoads == 2

-----------------------------------------------------------------------------
(* Characters and strings *)

Digits == <<"0", "1", "2", "3", "4", "5", "6", "7", "8", "9">>

DigitChars == { Digits[i] : i \in 1..10 }

\* the characters \s and String.prototype.trim treat as white space
WhiteSpace == { " ", "\t", "\n" }

IsDigit(c) == c \in DigitChars

DigitVal(c) == (CHOOSE i \in 1..10 : Digits[i] = c) - 1

RECURSIVE TrimLeft(_)
TrimLeft(s) ==
    IF s # << >> /\ Head(s) \in WhiteSpace THEN TrimLeft(Tail(s)) ELSE s

RECURSIVE TrimRight(_)
TrimRight(s) ==
    IF s # << >> /\ s[Len(s)] \in WhiteSpace
    THEN TrimRight(SubSeq(s, 1, Len(s) - 1))
    ELSE s

\* String.prototype.trim
Trim(s) == TrimRight(TrimLeft(s))

\* String.prototype.split with a one-character separator
RECURSIVE Split(_, _)
Split(s, sep) ==
    IF \E i \in 1..Len(s) : s[i] = sep
    THEN LET i == CHOOSE k \in 1..Len(s) :
                      s[k] = sep /\ \A j \in 1..(k - 1) : s[j] # sep
         IN  << SubSeq(s, 1, i - 1) >> \o Split(SubSeq(s, i + 1, Len(s)), sep)
    ELSE << s >>

Undefined == <<"u", "n", "d", "e", "f", "i", "n", "e", "d">>

\* an array element converted to text: a missing one reads "undefined"
Part(parts, i) == IF i <= Len(parts) THEN parts[i] ELSE Undefined

\* decimal digits to a number (parseInt of an all-digit text)
RECURSIVE DigitsToNat(_)
DigitsToNat(s) ==
    IF s = << >> THEN 0
    ELSE 10 * DigitsToNat(SubSeq(s, 1, Len(s) - 1)) + DigitVal(s[Len(s)])

RECURSIVE NatToDigits(_)
NatToDigits(n) ==
    IF n < 10 THEN << Digits[n + 1] >>
    ELSE NatToDigits(n \div 10) \o << Digits[(n % 10) + 1] >>

\* String(n) for an integer n, as assigned to ageInput.value
NumberToString(n) == IF n < 0 THEN <<"-">> \o NatToDigits(-n) ELSE NatToDigits(n)

\* Number(s) for the texts NumberToString produces; Number("") is 0
StringToNumber(s) ==
    IF s = << >> THEN 0
    ELSE IF Head(s) = "-" THEN -DigitsToNat(Tail(s))
    ELSE DigitsToNat(s)

-----------------------------------------------------------------------------
(* Validation helpers *)

MAX_RESUME_SIZE == 500 * 1024

ALLOWED_RESUME_TYPE == "application/pdf"

\* the size limit written out in the urlenc and formdata scripts
INLINE_RESUME_LIMIT == 500000

NoFile == [name |-> "", type |-> "", size |-> -1]

\* the pattern without its end anchor: ^\d{10}
PhonePatternOpen(t) == Len(t) >= 10 /\ \A i \in 1..10 : IsDigit(t[i])

\* ^\d{10}$
PhonePattern(t) == Len(t) = 10 /\ \A i \in 1..Len(t) : IsDigit(t[i])

validatePhone(phone) == PhonePattern(Trim(phone))

EmailChar(c) == c \notin WhiteSpace /\ c # "@"

\* [^\s@]* over a whole text
EmailChars(t) == \A i \in 1..Len(t) : EmailChar(t[i])

\* the pattern without its top-level domain: ^[^\s@]+@[^\s@]+$
EmailPatternNoTld(t) ==
    \E i \in 2..(Len(t) - 1) :
        /\ t[i] = "@"
        /\ EmailChars(SubSeq(t, 1, i - 1))
        /\ EmailChars(SubSeq(t, i + 1, Len(t)))

\* ^[^\s@]+@[^\s@]+\.[^\s@]+$
EmailPattern(t) ==
    \E i \in 2..Len(t) : \E j \in (i + 2)..(Len(t) - 1) :
        /\ t[i] = "@"
        /\ t[j] = "."
        /\ EmailChars(SubSeq(t, 1, i - 1))
        /\ EmailChars(SubSeq(t, i + 1, j - 1))
        /\ EmailChars(SubSeq(t, j + 1, Len(t)))

validateEmail(email) == EmailPattern(Trim(email))

MsgNoResume == "Please upload your resume."
MsgNotPdf == "Only PDF files are allowed."
MsgTooLarge == "File size must be under 500 KB."

validateResume(f) ==
    IF f = NoFile THEN [valid |-> FALSE, message |-> MsgNoResume]
    ELSE IF f.type # ALLOWED_RESUME_TYPE THEN [valid |-> FALSE, message |-> MsgNotPdf]
    ELSE IF f.size > MAX_RESUME_SIZE THEN [valid |-> FALSE, message |-> MsgTooLarge]
    ELSE [valid |-> TRUE, message |-> ""]

\* a reorder that puts the month first: MM/DD/YYYY
formatDOBMonthFirst(dateStr) ==
    LET parts == Split(dateStr, "-")
    IN  Part(parts, 2) \o <<"/">> \o Part(parts, 3) \o <<"/">> \o Part(parts, 1)

formatDOB(dateStr) ==
    LET parts == Split(dateStr, "-")
    IN  Part(parts, 3) \o <<"/">> \o Part(parts, 2) \o <<"/">> \o Part(parts, 1)

-----------------------------------------------------------------------------
(* Calendar dates *)

IsLeap(y) == (y % 4 = 0 /\ y % 100 # 0) \/ y % 400 = 0

DaysInMonth(y, m) ==
    IF m = 2 THEN (IF IsLeap(y) THEN 29 ELSE 28)
    ELSE IF m \in {4, 6, 9, 11} THEN 30 ELSE 31

PrevDay(dt) ==
    IF dt.d > 1 THEN [dt EXCEPT !.d = dt.d - 1]
    ELSE IF dt.m > 1 THEN [y |-> dt.y, m |-> dt.m - 1, d |-> DaysInMonth(dt.y, dt.m - 1)]
    ELSE [y |-> dt.y - 1, m |-> 12, d |-> 31]

\* new Date("YYYY-MM-DD"): midnight UTC of that day
ParseIsoDate(dateStr) ==
    LET parts == Split(dateStr, "-")
    IN  [y |-> DigitsToNat(parts[1]), m |-> DigitsToNat(parts[2]),
         d |-> DigitsToNat(parts[3])]

\* getFullYear/getMonth/getDate of new Date("YYYY-MM-DD"): the local date at
\* midnight UTC, which west of UTC is still the day before
LocalDateOf(dateStr, west) ==
    IF west THEN PrevDay(ParseIsoDate(dateStr)) ELSE ParseIsoDate(dateStr)

calculateAge(dateStr, now, west) ==
    LET birth == LocalDateOf(dateStr, west)
        age == now.y - birth.y
        monthDiff == now.m - birth.m
    IN  IF monthDiff < 0 \/ (monthDiff = 0 /\ now.d < birth.d)
        THEN age - 1 ELSE age

-----------------------------------------------------------------------------
(* The page: inputs, sample user inputs *)

Variants == {"iframe", "multipart", "urlenc", "formdata"}

\* the variants whose handler validates every field and reports inline
FullVariants == {"iframe", "multipart"}

TextFields == {"name", "email", "phone", "address"}

FieldNames == TextFields \cup {"dob", "age"}

ErrFields == {"name", "dob", "email", "phone", "address", "resume"}

Empty == << >>

Phone10 == <<"0", "1", "2", "3", "4", "5", "6", "7", "8", "9">>

MakeTexts(n, e, p, a) ==
    [f \in TextFields |->
        CASE f = "name" -> n [] f = "email" -> e [] f = "phone" -> p
          [] f = "address" -> a]

TextsEmpty == MakeTexts(Empty, Empty, Empty, Empty)

\* every text valid once trimmed
TextsValid ==
    MakeTexts(<<" ", "A", "l">>, <<"a", "@", "b", ".", "c", " ">>,
              <<" ">> \o Phone10 \o <<" ">>, <<"X", " ">>)

\* blank name and an email without a dot
TextsNoNameBadEmail == MakeTexts(<<" ">>, <<"a", "@", "b">>, Phone10, <<"X">>)

\* the text inputs as the user may leave them
TextSamples == { TextsEmpty, TextsValid, TextsNoNameBadEmail }

DobPast == <<"2", "0", "0", "0", "-", "0", "6", "-", "1", "5">>

DobTomorrow == <<"2", "0", "2", "4", "-", "0", "6", "-", "1", "5">>

\* values a date input can hold: empty or a well-formed YYYY-MM-DD
DobSamples == { Empty, DobPast, DobTomorrow }

TodaySamples == { [y |-> 2024, m |-> 6, d |-> 14] }

PdfSmall == [name |-> "cv.pdf", type |-> "application/pdf", size |-> 102400]

PdfAtLimit == [name |-> "max.pdf", type |-> "application/pdf", size |-> 512000]

PdfOverLimit == [name |-> "big.pdf", type |-> "application/pdf", size |-> 512001]

TextFile == [name |-> "cv.txt", type |-> "text/plain", size |-> 1024]

\* the file input as the user may leave it
FileSamples == { NoFile, PdfSmall, PdfOverLimit }

\* what the user has typed and picked when the next event arrives: the texts
\* (name, email, phone, address) and the resume file
InputSamples ==
    { << TextsEmpty, NoFile >>, << TextsValid, PdfSmall >>,
      << TextsNoNameBadEmail, PdfOverLimit >> }

\* the files validateResume is examined on
ResumeSamples ==
    { NoFile, PdfSmall, PdfAtLimit, PdfOverLimit, TextFile } \cup
    { [name |-> "cv", type |-> t, size |-> s] :
        t \in {"application/pdf", "text/plain", "application/PDF", ""},
        s \in {0, 102400, 500000, 500001, 512000, 512001, 1048576} }

\* longest run of digits the phone inputs are built from
MaxPhoneLen == 11

\* longest email input
MaxEmailLen == 6

\* white space a text may be padded with
Pads == { << >>, <<" ">>, <<"\t", "\n">> }

DigitRun(n) == [i \in 1..n |-> Digits[(i % 10) + 1]]

\* runs of digits, and runs with one character that is not a digit
PhoneCores ==
    { DigitRun(n) : n \in 0..MaxPhoneLen } \cup
    UNION { { [DigitRun(n) EXCEPT ![k] = c] : k \in 1..n, c \in {"a", "-", " "} } :
            n \in 1..MaxPhoneLen }

\* the texts validatePhone is examined on
PhoneInputs == { l \o core \o r : l \in Pads, core \in PhoneCores, r \in Pads }

\* the texts validateEmail is examined on
EmailInputs == UNION { [1..n -> {"a", "@", ".", " "}] : n \in 0..MaxEmailLen }

\* calendar dates, as birth dates and as current dates
DateSamples ==
    { dt \in [y : {987, 2000, 2023, 2024}, m : {1, 2, 3, 6, 12},
              d : {1, 14, 15, 28, 29, 31}] : dt.d <= DaysInMonth(dt.y, dt.m) }

RECURSIVE PadTo(_, _)
PadTo(s, w) == IF Len(s) >= w THEN s ELSE PadTo(<<"0">> \o s, w)

\* the value a date input holds for the date dt
IsoText(dt) ==
    PadTo(NatToDigits(dt.y), 4) \o <<"-">> \o PadTo(NatToDigits(dt.m), 2)
        \o <<"-">> \o PadTo(NatToDigits(dt.d), 2)

\* the texts calculateAge is examined on
BirthInputs == { IsoText(dt) : dt \in DateSamples }

\* the texts formatDOB is examined on: date input values, and texts with
\* fewer than three segments
FormatInputs ==
    BirthInputs \cup { Empty, <<"2", "0", "2", "4">>,
                       <<"2", "0", "2", "4", "-", "0", "6">> }

-----------------------------------------------------------------------------
(* UI helpers *)

MsgNameRequired == "Name is required."
MsgDobRequired == "Date of birth is required."
MsgDobInvalid == "Please select a valid date of birth."
MsgEmailInvalid == "Enter a valid email address."
MsgPhoneInvalid == "Enter a valid 10-digit phone number."
MsgAddressRequired == "Address is required."

StatusSuccess == "Application submitted successfully!"
StatusFailure == "Submission failed. Please try again later."
StatusSubmitted == "Application Submitted!"

NoErrors == [f \in ErrFields |-> ""]

\* form.reset(): every control of the form back to its (empty) default
ResetFields == [f \in FieldNames |-> Empty]

\* the values handleSubmit collects from the inputs
Collect(flds) ==
    [name |-> Trim(flds["name"]), age |-> Trim(flds["age"]),
     email |-> Trim(flds["email"]), phone |-> Trim(flds["phone"]),
     dob |-> flds["dob"], address |-> Trim(flds["address"])]

\* the message showError puts on each field ("" where it is not called)
FieldErrors(vals, f) ==
    [e \in ErrFields |->
        CASE e = "name" -> IF vals.name = Empty THEN MsgNameRequired ELSE ""
          [] e = "dob" ->
                IF vals.dob = Empty THEN MsgDobRequired
                ELSE IF vals.age = Empty \/ StringToNumber(vals.age) < 0
                     THEN MsgDobInvalid ELSE ""
          [] e = "email" -> IF ~validateEmail(vals.email) THEN MsgEmailInvalid ELSE ""
          [] e = "phone" -> IF ~validatePhone(vals.phone) THEN MsgPhoneInvalid ELSE ""
          [] e = "address" -> IF vals.address = Empty THEN MsgAddressRequired ELSE ""
          [] e = "resume" -> validateResume(f).message]

\* the alert the urlenc and formdata handlers return on ("" when they go on)
ResumeAlert(f) ==
    IF f = NoFile THEN "Upload resume"
    ELSE IF f.type # "application/pdf" THEN "Only PDF allowed"
    ELSE IF f.size > INLINE_RESUME_LIMIT THEN "Max size 500KB"
    ELSE ""

\* reader.result.split(',')[1] of the file read as a data URL
Base64Of(f) == << "base64", f.name >>

-----------------------------------------------------------------------------
(* Payloads *)

NoVals == << >>

NoPayload == << >>

\* the object handed to submitViaIframe
IframePayload(vals, f) ==
    ("name" :> vals.name) @@ ("age" :> vals.age) @@ ("email" :> vals.email) @@
    ("phone" :> vals.phone) @@ ("dob" :> formatDOB(vals.dob)) @@
    ("address" :> vals.address) @@ ("resumeName" :> f.name) @@
    ("resumeBase64" :> Base64Of(f))

\* the FormData of the multipart handler
MultipartPayload(vals, f) ==
    ("name" :> vals.name) @@ ("age" :> vals.age) @@ ("email" :> vals.email) @@
    ("phone" :> vals.phone) @@ ("dob" :> formatDOB(vals.dob)) @@
    ("address" :> vals.address) @@ ("resume" :> f)

\* the URLSearchParams of the urlenc handler, read from the inputs as they are
UrlencPayload(flds, f) ==
    ("name" :> flds["name"]) @@ ("age" :> flds["age"]) @@ ("email" :> flds["email"]) @@
    ("phone" :> flds["phone"]) @@ ("address" :> flds["address"]) @@
    ("dob" :> formatDOB(flds["dob"])) @@ ("resumeName" :> f.name) @@
    ("resumeBase64" :> Base64Of(f))

\* the FormData of the formdata handler
FormdataPayload(flds, f) ==
    ("name" :> flds["name"]) @@ ("age" :> flds["age"]) @@ ("email" :> flds["email"]) @@
    ("phone" :> flds["phone"]) @@ ("address" :> flds["address"]) @@
    ("dob" :> formatDOB(flds["dob"])) @@ ("resumeName" :> f.name)

-----------------------------------------------------------------------------
(* One suspended handleSubmit call *)

\* pc: "read" awaiting fileToBase64, "send" awaiting the transport (the
\*     promise of submitViaIframe or of fetch is pending), "done" returned
\*     through the try body, "failed" returned through the catch block,
\*     "threw" ended by an uncaught rejection
\* posts: requests the call has sent
\* formIn, frameIn: the hidden form / iframe of the call is in the document
\* timers: teardown timeouts of the call not yet run
NewAttempt(pc, vals, f, payload) ==
    [pc |-> pc, vals |-> vals, file |-> f, payload |-> payload,
     posts |-> IF pc = "send" THEN 1 ELSE 0,
     formIn |-> FALSE, frameIn |-> FALSE, timers |-> 0]

\* the call has returned or thrown: its locals are gone
Finish(a, pc) ==
    [a EXCEPT !.pc = pc, !.vals = NoVals, !.file = NoFile, !.payload = NoPayload]

-----------------------------------------------------------------------------
(* A helper function called on its own *)

\* no helper call is under examination
NoCall == [fn |-> "none", arg |-> << >>, done |-> FALSE, value |-> << >>]

NewCall(fn, arg) == [fn |-> fn, arg |-> arg, done |-> FALSE, value |-> << >>]

-----------------------------------------------------------------------------
(* Initial state: the page as loaded *)

InitIn(vs) ==
    /\ variant \in vs
    /\ tzWest \in BOOLEAN
    /\ today \in TodaySamples
    /\ fields = ResetFields
    /\ file = NoFile
    /\ errors = NoErrors
    /\ inputError = {}
    /\ statusText = ""
    /\ statusClass = {"status-msg"}
    /\ submitDisabled = FALSE
    /\ alertMsg = ""
    /\ attempts = << >>
    /\ call = NoCall

\* a page running the iframe or the multipart script
Init == InitIn(FullVariants)

\* a page running the urlenc or the formdata script
InitPlain == InitIn(Variants \ FullVariants)

\* what no step of the page changes: the deployment, the clock, and the
\* helper call under examination
env == << variant, tzWest, today, call >>

-----------------------------------------------------------------------------
(* Field edits *)

\* the user types into name, email, phone, address and picks the resume file
\* (no listener that touches the modelled state runs)
EditInputs(t, f) ==
    /\ f # file \/ \E x \in TextFields : t[x] # fields[x]
    /\ fields' = [x \in FieldNames |-> IF x \in TextFields THEN t[x] ELSE fields[x]]
    /\ file' = f
    /\ UNCHANGED << env, errors, inputError, statusText, statusClass,
                    submitDisabled, alertMsg, attempts >>

\* dobInput change listener of the iframe and multipart scripts
DobListenerFull(v, oldAge, now, west) ==
    IF v # Empty
    THEN LET age == calculateAge(v, now, west)
         IN  IF age >= 0 THEN NumberToString(age) ELSE Empty
    ELSE Empty

\* dobInput change listener of the urlenc and formdata scripts
DobListenerPlain(v, oldAge, now, west) ==
    IF v = Empty THEN oldAge
    ELSE NumberToString(calculateAge(v, now, west))

\* the user changes the date of birth; the change listener runs
DobChange(v) ==
    /\ v # fields["dob"]
    /\ fields' = [fields EXCEPT
          !["dob"] = v,
          !["age"] = IF variant \in FullVariants
                     THEN DobListenerFull(v, fields["age"], today, tzWest)
                     ELSE DobListenerPlain(v, fields["age"], today, tzWest)]
    /\ UNCHANGED << env, file, errors, inputError, statusText, statusClass,
                    submitDisabled, alertMsg, attempts >>

-----------------------------------------------------------------------------
(* handleSubmit up to its first suspension point.  A submit event reaches  *)
(* the form only while the submit button is enabled.                       *)

\* part_000: validate everything, then await fileToBase64(file)
SubmitIframe ==
    /\ variant = "iframe"
    /\ ~submitDisabled
    /\ LET vals == Collect(fields)
           errs == FieldErrors(vals, file)
           hasError == errs # NoErrors
       IN  /\ hasError \/ Len(attempts) < MaxAttempts
           /\ errors' = errs
           /\ inputError' = { e \in ErrFields : errs[e] # "" }
           /\ statusText' = ""
           /\ statusClass' = {"status-msg"}
           /\ attempts' = IF hasError THEN attempts
                          ELSE Append(attempts, NewAttempt("read", vals, file, NoPayload))
    /\ UNCHANGED << env, fields, file, submitDisabled, alertMsg >>

\* app.js 162-252: validate everything, setLoading(true), await fetch
SubmitMultipart ==
    /\ variant = "multipart"
    /\ ~submitDisabled
    /\ LET vals == Collect(fields)
           errs == FieldErrors(vals, file)
           hasError == errs # NoErrors
       IN  /\ hasError \/ Len(attempts) < MaxAttempts
           /\ errors' = errs
           /\ inputError' = { e \in ErrFields : errs[e] # "" }
           /\ statusText' = ""
           /\ statusClass' = {"status-msg"}
           /\ submitDisabled' = ~hasError
           /\ attempts' = IF hasError THEN attempts
                          ELSE Append(attempts,
                                 NewAttempt("send", vals, file,
                                            MultipartPayload(vals, file)))
    /\ UNCHANGED << env, fields, file, alertMsg >>

\* app.js 312-355: resume checks with alert, then await fileToBase64(file)
SubmitUrlenc ==
    /\ variant = "urlenc"
    /\ ~submitDisabled
    /\ LET msg == ResumeAlert(file)
       IN  /\ msg # "" \/ Len(attempts) < MaxAttempts
           /\ alertMsg' = IF msg # "" THEN msg ELSE alertMsg
           /\ attempts' = IF msg # "" THEN attempts
                          ELSE Append(attempts, NewAttempt("read", NoVals, file, NoPayload))
    /\ UNCHANGED << env, fields, file, errors, inputError, statusText, statusClass,
                    submitDisabled >>

\* part_001: resume checks with alert, then await fetch
SubmitFormdata ==
    /\ variant = "formdata"
    /\ ~submitDisabled
    /\ LET msg == ResumeAlert(file)
       IN  /\ msg # "" \/ Len(attempts) < MaxAttempts
           /\ alertMsg' = IF msg # "" THEN msg ELSE alertMsg
           /\ attempts' = IF msg # "" THEN attempts
                          ELSE Append(attempts,
                                 NewAttempt("send", NoVals, file,
                                            FormdataPayload(fields, file)))
    /\ UNCHANGED << env, fields, file, errors, inputError, statusText, statusClass,
                    submitDisabled >>

-----------------------------------------------------------------------------
(* handleSubmit after the transport settled *)

\* try body after the await, then finally (iframe and multipart scripts)
SubmitSucceeded(i, a) ==
    /\ statusText' = StatusSuccess
    /\ statusClass' = statusClass \cup {"status-msg--success"}
    /\ fields' = ResetFields
    /\ file' = NoFile
    /\ submitDisabled' = FALSE
    /\ attempts' = [attempts EXCEPT ![i] = Finish(a, "done")]
    /\ UNCHANGED << env, errors, inputError, alertMsg >>

\* a catch block that also clears the form
SubmitFailedResets(i, a) ==
    /\ statusText' = StatusFailure
    /\ statusClass' = statusClass \cup {"status-msg--error"}
    /\ fields' = ResetFields
    /\ file' = NoFile
    /\ submitDisabled' = FALSE
    /\ attempts' = [attempts EXCEPT ![i] = Finish(a, "failed")]
    /\ UNCHANGED << env, errors, inputError, alertMsg >>

\* catch, then finally (iframe and multipart scripts)
SubmitFailed(i, a) ==
    /\ statusText' = StatusFailure
    /\ statusClass' = statusClass \cup {"status-msg--error"}
    /\ submitDisabled' = FALSE
    /\ attempts' = [attempts EXCEPT ![i] = Finish(a, "failed")]
    /\ UNCHANGED << env, fields, file, errors, inputError, alertMsg >>

\* the statements after `await fetch` of the urlenc and formdata scripts
PlainSucceeded(i, a) ==
    /\ statusText' = StatusSubmitted
    /\ fields' = ResetFields
    /\ file' = NoFile
    /\ attempts' = [attempts EXCEPT ![i] = Finish(a, "done")]
    /\ UNCHANGED << env, errors, inputError, statusClass, submitDisabled, alertMsg >>

\* a rejection no try block catches: the async handler ends with it
Uncaught(i, a) ==
    /\ attempts' = [attempts EXCEPT ![i] = Finish(a, "threw")]
    /\ UNCHANGED << env, fields, file, errors, inputError, statusText, statusClass,
                    submitDisabled, alertMsg >>

-----------------------------------------------------------------------------
(* fileToBase64 *)

\* reader.onload in part_000: setLoading(true), then submitViaIframe creates
\* the iframe and the hidden form and submits it
IframeReadDone(i) ==
    /\ variant = "iframe"
    /\ attempts[i].pc = "read"
    /\ submitDisabled' = TRUE
    /\ attempts' = [attempts EXCEPT ![i] =
          [@ EXCEPT !.pc = "send",
                    !.payload = IframePayload(attempts[i].vals, attempts[i].file),
                    !.posts = @ + 1,
                    !.formIn = TRUE,
                    !.frameIn = TRUE]]
    /\ UNCHANGED << env, fields, file, errors, inputError, statusText, statusClass,
                    alertMsg >>

\* reader.onload in the urlenc script: the inputs are read now, then fetch
UrlencReadDone(i) ==
    /\ variant = "urlenc"
    /\ attempts[i].pc = "read"
    /\ attempts' = [attempts EXCEPT ![i] =
          [@ EXCEPT !.pc = "send",
                    !.payload = UrlencPayload(fields, attempts[i].file),
                    !.posts = @ + 1]]
    /\ UNCHANGED << env, fields, file, errors, inputError, statusText, statusClass,
                    submitDisabled, alertMsg >>

\* reader.onerror: the awaited promise rejects outside any try block
ReadError(i) ==
    /\ attempts[i].pc = "read"
    /\ Uncaught(i, attempts[i])

-----------------------------------------------------------------------------
(* fetch *)

FetchResolve(i) ==
    /\ variant # "iframe"
    /\ attempts[i].pc = "send"
    /\ IF variant = "multipart"
       THEN SubmitSucceeded(i, attempts[i])
       ELSE PlainSucceeded(i, attempts[i])

FetchReject(i) ==
    /\ variant # "iframe"
    /\ attempts[i].pc = "send"
    /\ IF variant = "multipart"
       THEN SubmitFailed(i, attempts[i])
       ELSE Uncaught(i, attempts[i])

-----------------------------------------------------------------------------
(* submitViaIframe: the events of the hidden iframe *)

\* a teardown that removes the hidden form and leaves the iframe
TeardownFormOnly(a) ==
    IF ~a.formIn THEN a ELSE [a EXCEPT !.formIn = FALSE]

\* removeChild(hiddenForm); removeChild(iframe): removing a node that is not
\* a child throws, which ends the callback
TeardownElements(a) ==
    IF ~a.formIn THEN a
    ELSE IF ~a.frameIn THEN [a EXCEPT !.formIn = FALSE]
    ELSE [a EXCEPT !.formIn = FALSE, !.frameIn = FALSE]

\* whether the two removeChild calls throw
TeardownThrows(a) == ~a.formIn \/ ~a.frameIn

\* load listener: schedule the teardown, resolve().  The iframe fires events
\* only while it is in the document.
IframeLoad(i) ==
    /\ variant = "iframe"
    /\ attempts[i].frameIn
    /\ attempts[i].timers < MaxLoads
    /\ LET a == [attempts[i] EXCEPT !.timers = @ + 1]
       IN  IF a.pc = "send"
           THEN SubmitSucceeded(i, a)
           ELSE /\ attempts' = [attempts EXCEPT ![i] = a]
                /\ UNCHANGED << env, fields, file, errors, inputError, statusText,
                                statusClass, submitDisabled, alertMsg >>

\* error listener: tear down at once, reject()
IframeError(i) ==
    /\ variant = "iframe"
    /\ attempts[i].frameIn
    /\ LET a == TeardownElements(attempts[i])
       IN  IF ~TeardownThrows(attempts[i]) /\ a.pc = "send"
           THEN SubmitFailed(i, a)
           ELSE /\ attempts' = [attempts EXCEPT ![i] = a]
                /\ UNCHANGED << env, fields, file, errors, inputError, statusText,
                                statusClass, submitDisabled, alertMsg >>

\* the setTimeout callback of the load listener
TeardownTimer(i) ==
    /\ variant = "iframe"
    /\ attempts[i].timers > 0
    /\ attempts' = [attempts EXCEPT ![i] =
          [TeardownElements(attempts[i]) EXCEPT !.timers = @ - 1]]
    /\ UNCHANGED << env, fields, file, errors, inputError, statusText, statusClass,
                    submitDisabled, alertMsg >>

-----------------------------------------------------------------------------
(* Specification *)

UserEdit ==
    \/ \E s \in InputSamples : EditInputs(s[1], s[2])
    \/ \E v \in DobSamples : DobChange(v)

Next ==
    \/ UserEdit
    \/ SubmitIframe
    \/ SubmitMultipart
    \/ \E i \in DOMAIN attempts : IframeReadDone(i)
    \/ \E i \in DOMAIN attempts : ReadError(i)
    \/ \E i \in DOMAIN attempts : FetchResolve(i)
    \/ \E i \in DOMAIN attempts : FetchReject(i)
    \/ \E i \in DOMAIN attempts : IframeLoad(i)
    \/ \E i \in DOMAIN attempts : IframeError(i)
    \/ \E i \in DOMAIN attempts : TeardownTimer(i)

Spec == Init /\ [][Next]_vars

NextPlain ==
    \/ UserEdit
    \/ SubmitUrlenc
    \/ SubmitFormdata
    \/ \E i \in DOMAIN attempts : UrlencReadDone(i)
    \/ \E i \in DOMAIN attempts : ReadError(i)
    \/ \E i \in DOMAIN attempts : FetchResolve(i)
    \/ \E i \in DOMAIN attempts : FetchReject(i)

SpecPlain == InitPlain /\ [][NextPlain]_vars

-----------------------------------------------------------------------------
(* The helper functions called on their own *)

page == << fields, file, errors, inputError, statusText, statusClass,
           submitDisabled, alertMsg, attempts >>

\* the call under examination runs and returns v
Returns(fn, v) ==
    /\ call.fn = fn
    /\ ~call.done
    /\ call' = [call EXCEPT !.done = TRUE, !.value = v]
    /\ UNCHANGED << variant, tzWest, today, page >>

CallValidatePhone == Returns("validatePhone", validatePhone(call.arg))

CallValidateEmail == Returns("validateEmail", validateEmail(call.arg))

CallValidateResume == Returns("validateResume", validateResume(call.arg))

\* the resume checks the urlenc and formdata handlers start with
CallResumeChecks == Returns("resumeChecks", ResumeAlert(call.arg))

CallFormatDOB == Returns("formatDOB", formatDOB(call.arg))

CallCalculateAge == Returns("calculateAge", calculateAge(call.arg, today, tzWest))

\* a page as loaded, and one call of a helper its script defines
InitHelpers ==
    /\ fields = ResetFields
    /\ file = NoFile
    /\ errors = NoErrors
    /\ inputError = {}
    /\ statusText = ""
    /\ statusClass = {"status-msg"}
    /\ submitDisabled = FALSE
    /\ alertMsg = ""
    /\ attempts = << >>
    /\ \/ /\ variant \in FullVariants
          /\ tzWest = FALSE
          /\ today \in TodaySamples
          /\ \/ call \in { NewCall("validatePhone", s) : s \in PhoneInputs }
             \/ call \in { NewCall("validateEmail", s) : s \in EmailInputs }
             \/ call \in { NewCall("validateResume", f) : f \in ResumeSamples }
       \/ /\ variant \in Variants \ FullVariants
          /\ tzWest = FALSE
          /\ today \in TodaySamples
          /\ call \in { NewCall("resumeChecks", f) : f \in ResumeSamples }
       \/ /\ variant \in Variants
          /\ tzWest = FALSE
          /\ today \in TodaySamples
          /\ call \in { NewCall("formatDOB", s) : s \in FormatInputs }
       \/ /\ variant \in FullVariants
          /\ tzWest \in BOOLEAN
          /\ today \in DateSamples
          /\ call \in { NewCall("calculateAge", s) : s \in BirthInputs }

NextHelpers ==
    \/ CallValidatePhone
    \/ CallValidateEmail
    \/ CallValidateResume
    \/ CallResumeChecks
    \/ CallFormatDOB
    \/ CallCalculateAge

SpecHelpers == InitHelpers /\ [][NextHelpers]_vars

-----------------------------------------------------------------------------
(* What the specification calls valid, stated on dates and payloads *)

DateAfter(a, b) ==
    \/ a.y > b.y
    \/ a.y = b.y /\ a.m > b.m
    \/ a.y = b.y /\ a.m = b.m /\ a.d > b.d

AllDigits(s) == s # Empty /\ \A i \in 1..Len(s) : IsDigit(s[i])

\* a payload dob is DD/MM/YYYY and names a day not after `now`
PayloadDobOk(dobText, now) ==
    LET parts == Split(dobText, "/")
    IN  /\ Len(parts) = 3
        /\ \A k \in 1..3 : AllDigits(parts[k])
        /\ ~DateAfter([y |-> DigitsToNat(parts[3]), m |-> DigitsToNat(parts[2]),
                       d |-> DigitsToNat(parts[1])], now)

\* a payload age is the text of a non-negative integer
PayloadAgeOk(ageText) == AllDigits(ageText)

\* every value the call read for its request is valid
PayloadValid(a) ==
    /\ Trim(a.payload["name"]) # Empty
    /\ validateEmail(a.payload["email"])
    /\ validatePhone(a.payload["phone"])
    /\ Trim(a.payload["address"]) # Empty
    /\ PayloadDobOk(a.payload["dob"], today)
    /\ PayloadAgeOk(a.payload["age"])
    /\ validateResume(a.file).valid

\* the input does not meet the rule the specification gives for it
FieldInvalid(e, flds, f, now) ==
    CASE e = "name" -> Trim(flds["name"]) = Empty
      [] e = "dob" -> \/ flds["dob"] = Empty
                      \/ DateAfter(ParseIsoDate(flds["dob"]), now)
      [] e = "email" -> ~validateEmail(flds["email"])
      [] e = "phone" -> ~validatePhone(flds["phone"])
      [] e = "address" -> Trim(flds["address"]) = Empty
      [] e = "resume" -> ~validateResume(f).valid

InFlight(a) == a.pc \in {"read", "send"}

\* call i sends a request in this step
Dispatches(i) ==
    attempts'[i].posts > (IF i \in DOMAIN attempts THEN attempts[i].posts ELSE 0)

\* call i leaves the transport await through the try body in this step
Resolves(i) == attempts[i].pc = "send" /\ attempts'[i].pc = "done"

SubmitEvent == SubmitIframe \/ SubmitMultipart \/ SubmitUrlenc \/ SubmitFormdata

SevenKeys == {"name", "age", "email", "phone", "dob", "address", "resumeName"}

-----------------------------------------------------------------------------
(* Claims *)

\* C1: a request is dispatched by a submission attempt only if every field
\* the attempt read (name, dob/age, email, phone, address, resume) was valid.
C1_ValidationGatesTransport ==
    [][ \A i \in DOMAIN attempts' :
            Dispatches(i) => PayloadValid(attempts'[i]) ]_vars

\* C2: at most one submission attempt is in flight (awaiting the file read
\* or the transport) at any time.
C2_SingleInFlight ==
    Cardinality({ i \in DOMAIN attempts : InFlight(attempts[i]) }) <= 1

\* C3: while an attempt that passed validation is in flight (file read or
\* transport) the submit control is disabled, and it is enabled when the
\* attempt ends.
C3_DisabledForTheAttempt ==
    [][ /\ \A i \in DOMAIN attempts' :
              InFlight(attempts'[i]) => submitDisabled'
        /\ \A i \in DOMAIN attempts :
              InFlight(attempts[i]) /\ ~InFlight(attempts'[i]) => ~submitDisabled'
      ]_vars

\* C4: when the resume file cannot be read, the attempt ends with the generic
\* failure status shown, nothing sent, the submit control enabled and the
\* field values kept.
C4_ReadErrorReported ==
    [][ \A i \in DOMAIN attempts :
            attempts[i].pc = "read" /\ ~InFlight(attempts'[i]) =>
                /\ statusText' = StatusFailure
                /\ attempts'[i].posts = 0
                /\ ~submitDisabled'
                /\ fields' = fields /\ file' = file ]_vars

\* C5: an attempt on an all-valid form has sent exactly one POST once it
\* awaits the transport, and that POST carries the seven fields name, age,
\* email, phone, dob, address and resumeName.
C5_OnePostSevenFields ==
    \A i \in DOMAIN attempts :
        attempts[i].pc = "send" /\ PayloadValid(attempts[i]) =>
            /\ attempts[i].posts = 1
            /\ SevenKeys \subseteq DOMAIN attempts[i].payload

\* C6: after a submit event the fields carrying an error message and the
\* error style are exactly the invalid fields, and nothing is sent if there
\* is one.
C6_ExhaustiveFieldErrors ==
    [][ SubmitEvent =>
          /\ \A e \in ErrFields :
                /\ errors'[e] # "" <=> FieldInvalid(e, fields, file, today)
                /\ e \in inputError' <=> FieldInvalid(e, fields, file, today)
          /\ (\E e \in ErrFields : FieldInvalid(e, fields, file, today))
                => attempts' = attempts ]_vars

\* C7: a submission attempt empties the inputs when its transport resolves
\* without a local error, and in no other case: a validation failure, a
\* file-read error and a transport error leave every input as it was.
C7_ResetIffTransportOk ==
    [][ /\ \A i \in DOMAIN attempts :
              Resolves(i) => fields' = ResetFields /\ file' = NoFile
        /\ (~UserEdit /\ \A i \in DOMAIN attempts : ~Resolves(i))
              => fields' = fields /\ file' = file ]_vars

\* C7 witness: one attempt resolved and one failed, and the inputs filled in
\* after the reset are still there.
C7_Witness ==
    \E i, j \in DOMAIN attempts :
        /\ attempts[i].pc = "done"
        /\ attempts[j].pc = "failed"
        /\ fields["name"] # Empty
        /\ statusText = StatusFailure

\* C8: no request in flight carries a dob later than the current date or an
\* age that is not a non-negative integer.
C8_NoFutureDobSent ==
    \A i \in DOMAIN attempts :
        attempts[i].pc = "send" =>
            /\ PayloadDobOk(attempts[i].payload["dob"], today)
            /\ PayloadAgeOk(attempts[i].payload["age"])

\* C9: once a hidden-frame call has completed (resolved or rejected) and no
\* teardown timeout of it is pending, neither its form nor its iframe is in
\* the document.
C9_TransientsTornDown ==
    \A i \in DOMAIN attempts :
        attempts[i].pc \in {"done", "failed"} /\ attempts[i].timers = 0 =>
            ~attempts[i].formIn /\ ~attempts[i].frameIn

\* C9 witness: a call that resolved on load and one that was rejected on
\* error, both sent and both with their elements gone.
C9_Witness ==
    /\ variant = "iframe"
    /\ \E i, j \in DOMAIN attempts :
          /\ attempts[i].pc = "done" /\ attempts[j].pc = "failed"
          /\ attempts[i].posts = 1 /\ attempts[j].posts = 1
          /\ attempts[i].timers = 0 /\ attempts[j].timers = 0
          /\ ~attempts[i].frameIn /\ ~attempts[j].frameIn

\* C10: whenever the date of birth changes the age is recomputed from it,
\* and when it changes to empty the age becomes empty.
C10_AgeFollowsDob ==
    [][ fields'["dob"] # fields["dob"] =>
          IF fields'["dob"] = Empty
          THEN fields'["age"] = Empty
          ELSE LET age == calculateAge(fields'["dob"], today, tzWest)
               IN  \/ fields'["age"] = NumberToString(age)
                   \/ age < 0 /\ fields'["age"] = Empty ]_vars

\* what the status element shows: its text with its class list
StatusShown == << statusText, statusClass >>

StatusEmpty == << "", {"status-msg"} >>

StatusIsSuccess == << StatusSuccess, {"status-msg", "status-msg--success"} >>

StatusIsFailure == << StatusFailure, {"status-msg", "status-msg--error"} >>

\* C11: the status element is empty, or shows success, or shows the generic
\* failure, never a mix of the success and the failure presentation; and it
\* shows success only when an attempt's request was dispatched and its
\* transport ended without a local error.
C11_StatusExclusive ==
    /\ StatusShown \in { StatusEmpty, StatusIsSuccess, StatusIsFailure }
    /\ statusText = StatusSuccess =>
          \E i \in DOMAIN attempts :
              attempts[i].pc = "done" /\ attempts[i].posts = 1

\* the UI a submit event leaves for the form contents (flds, f), whichever
\* variant handles it: the inline errors of the invalid fields, an empty
\* status, the inputs as they were, and the submit control disabled iff the
\* attempt goes on to its transport
UiAfterSubmit(flds, f) ==
    LET errs == FieldErrors(Collect(flds), f)
    IN  /\ errors' = errs
        /\ inputError' = { e \in ErrFields : errs[e] # "" }
        /\ StatusShown' = StatusEmpty
        /\ submitDisabled' = (errs = NoErrors)
        /\ fields' = flds /\ file' = f

\* the UI an attempt leaves when its transport outcome is known
UiAfterOutcome(pc) ==
    /\ ~submitDisabled'
    /\ errors' = errors /\ inputError' = inputError
    /\ \/ /\ pc = "done"
          /\ StatusShown' = StatusIsSuccess
          /\ fields' = ResetFields /\ file' = NoFile
       \/ /\ pc = "failed"
          /\ StatusShown' = StatusIsFailure
          /\ fields' = fields /\ file' = file

\* C12: the hidden-frame and the multipart variant of the submit handler
\* leave the same observable UI (field errors, status, submit-control state,
\* inputs reset or kept) for the same form contents and the same transport
\* outcome: after the submit event and after the outcome the UI is the one
\* the contents and the outcome determine, independent of the variant.
C12_VariantsAgree ==
    [][ /\ (SubmitIframe \/ SubmitMultipart) => UiAfterSubmit(fields, file)
        /\ \A i \in DOMAIN attempts :
              InFlight(attempts[i]) /\ ~InFlight(attempts'[i])
                  => UiAfterOutcome(attempts'[i].pc) ]_vars

\* the fields the handler of a submit event finds invalid
FoundInvalid(flds, f) ==
    { e \in ErrFields : FieldErrors(Collect(flds), f)[e] # "" }

\* the fields whose error span carries a message
Marked == { e \in ErrFields : errors[e] # "" }

\* C18: the fields carrying an error message and the error style are exactly
\* those the most recent submit event found invalid: a submit event replaces
\* the marks of earlier events, no other step changes them, and an attempt
\* that ends in success leaves no field marked.
C18_MarksOfLastSubmit ==
    [][ /\ IF SubmitIframe \/ SubmitMultipart
           THEN /\ Marked' = FoundInvalid(fields, file)
                /\ inputError' = FoundInvalid(fields, file)
           ELSE Marked' = Marked /\ inputError' = inputError
        /\ \A i \in DOMAIN attempts :
              Resolves(i) => Marked' = {} /\ inputError' = {} ]_vars

\* C19: no callback of the hidden-frame transport calls removeChild on an
\* element that is no longer in the document, whatever load and error
\* events the frame fires.
C19_RemovedAtMostOnce ==
    [][ \A i \in DOMAIN attempts :
            IframeError(i) \/ TeardownTimer(i) => ~TeardownThrows(attempts[i]) ]_vars

\* the finished call is one of fn
Returned(fn) == call.done /\ call.fn = fn

\* what the resume validation answered for the file of the finished call
ResumeVerdict ==
    IF call.fn = "validateResume"
    THEN CASE call.value = [valid |-> TRUE, message |-> ""] -> "ok"
           [] call.value = [valid |-> FALSE, message |-> MsgNoResume] -> "missing"
           [] call.value = [valid |-> FALSE, message |-> MsgNotPdf] -> "wrong type"
           [] call.value = [valid |-> FALSE, message |-> MsgTooLarge] -> "too large"
           [] OTHER -> "none"
    ELSE CASE call.value = "" -> "ok"
           [] call.value = "Upload resume" -> "missing"
           [] call.value = "Only PDF allowed" -> "wrong type"
           [] call.value = "Max size 500KB" -> "too large"
           [] OTHER -> "none"

\* C13: the resume validation answers missing file if there is no file,
\* else wrong type if the MIME type is not exactly application/pdf whatever
\* the size, else too large iff the size exceeds 512000 bytes (512000 is
\* accepted, 512001 is rejected), else it succeeds.
C13_ResumeOrderAndBoundary ==
    Returned("validateResume") \/ Returned("resumeChecks") =>
        ResumeVerdict =
            IF call.arg = NoFile THEN "missing"
            ELSE IF call.arg.type # "application/pdf" THEN "wrong type"
            ELSE IF call.arg.size > 512000 THEN "too large"
            ELSE "ok"

\* years completed on the day `now` by someone born on the day `birth`
CalendarAge(birth, now) ==
    IF 100 * now.m + now.d < 100 * birth.m + birth.d
    THEN now.y - birth.y - 1
    ELSE now.y - birth.y

\* C14: calculateAge returns the calendar age: the current year minus the
\* birth year, less one iff the current (month, day) comes earlier in the
\* year than the birth (month, day), for every birth date and current date.
C14_CalendarAge ==
    Returned("calculateAge") =>
        call.value = CalendarAge(ParseIsoDate(call.arg), today)

\* s without its leading and trailing white space: the text from its first
\* to its last character that is not white space
Stripped(s) ==
    LET ns == { i \in 1..Len(s) : s[i] \notin WhiteSpace }
    IN  IF ns = {} THEN << >>
        ELSE SubSeq(s, CHOOSE i \in ns : \A j \in ns : i <= j,
                       CHOOSE i \in ns : \A j \in ns : i >= j)

\* the number of characters of s that are decimal digits
DigitCount(s) == Cardinality({ i \in 1..Len(s) : s[i] \in DigitChars })

\* C15: validatePhone is true iff the text, with leading and trailing white
\* space removed, has length exactly 10 and consists of decimal digits only.
C15_PhoneTenDigits ==
    Returned("validatePhone") =>
        (call.value <=>
            Len(Stripped(call.arg)) = 10 /\ DigitCount(Stripped(call.arg)) = 10)

\* C15 witness: validatePhone has accepted a ten-digit text with white space
\* on both sides.
C15_Witness ==
    /\ Returned("validatePhone")
    /\ call.value
    /\ Head(call.arg) \in WhiteSpace
    /\ call.arg[Len(call.arg)] \in WhiteSpace

\* the positions of the character c in t
PositionsOf(c, t) == { i \in 1..Len(t) : t[i] = c }

\* t has the shape local@domain.tld: no white space, one "@" that is not the
\* first character, and after it a "." with at least one character between
\* the two and at least one character behind
EmailShape(t) ==
    /\ \A i \in 1..Len(t) : t[i] \notin WhiteSpace
    /\ Cardinality(PositionsOf("@", t)) = 1
    /\ \E i \in PositionsOf("@", t) :
          /\ i > 1
          /\ \E j \in PositionsOf(".", t) : i + 1 < j /\ j < Len(t)

\* C16 as stated: validateEmail is true iff the text itself is one or more
\* non-space non-@ characters, "@", one or more such characters, ".", one or
\* more such characters.
C16_EmailMatchesPattern ==
    Returned("validateEmail") => (call.value <=> EmailShape(call.arg))

\* C16 amended: validateEmail is true iff the text, with leading and
\* trailing white space removed, has that shape.
C16_TrimmedEmailMatchesPattern ==
    Returned("validateEmail") => (call.value <=> EmailShape(Stripped(call.arg)))

\* C16 witness: validateEmail has accepted a text that starts with white
\* space.
C16_Witness ==
    /\ Returned("validateEmail")
    /\ call.value
    /\ Head(call.arg) \in WhiteSpace

\* d is a date input value: four digits, "-", two digits, "-", two digits
WellFormedIso(d) ==
    /\ Len(d) = 10
    /\ \A i \in 1..10 : IF i \in {5, 8} THEN d[i] = "-" ELSE d[i] \in DigitChars

\* the inverse of the reorder: DD/MM/YYYY back to YYYY-MM-DD
ParseDMY(t) ==
    LET parts == Split(t, "/")
    IN  parts[3] \o <<"-">> \o parts[2] \o <<"-">> \o parts[1]

\* C17: for a well-formed YYYY-MM-DD text, formatDOB returns its day, month
\* and year segments in that order, unchanged and separated by "/", and the
\* inverse reorder of the result gives the text back, leading zeros included.
C17_FormatRoundTrip ==
    Returned("formatDOB") /\ WellFormedIso(call.arg) =>
        /\ call.value = SubSeq(call.arg, 9, 10) \o <<"/">> \o SubSeq(call.arg, 6, 7)
                            \o <<"/">> \o SubSeq(call.arg, 1, 4)
        /\ ParseDMY(call.value) = call.arg

\* C17 witness: formatDOB has returned for a date whose year, month and day
\* all start with a zero and whose day and month differ.
C17_Witness ==
    /\ Returned("formatDOB")
    /\ WellFormedIso(call.arg)
    /\ call.arg[1] = "0" /\ call.arg[6] = "0" /\ call.arg[9] = "0"
    /\ SubSeq(call.arg, 6, 7) # SubSeq(call.arg, 9, 10)

=============================================================================
